---- MODULE Spec2Model ----
(***************************************************************************)
(* Customer segmentation pipeline: etl/build_rfm.py (schema resolution,    *)
(* cleaning, RFM aggregation) and model/train_cluster_model.py (cluster    *)
(* count selection, segment naming).  Strings whose characters the code    *)
(* inspects are sequences of one-character strings.                        *)
(***************************************************************************)
EXTENDS Integers, Sequences, FiniteSets, TLC

(***************************************************************************)
(* Bounds of the model.                                                    *)
(***************************************************************************)
MaxRows == 3
TicksPerDay == 2

(***************************************************************************)
(* Generic helpers.                                                        *)
(***************************************************************************)
Range(s) == {s[i] : i \in 1..Len(s)}

RECURSIVE SumSeq(_)
SumSeq(s) == IF s = <<>> THEN 0 ELSE s[1] + SumSeq(Tail(s))

RECURSIVE Flatten(_)
Flatten(ss) == IF ss = <<>> THEN <<>> ELSE ss[1] \o Flatten(Tail(ss))

SeqsUpTo(S, n) == UNION {[1..m -> S] : m \in 0..n}

SetMax(S) == CHOOSE x \in S : \A y \in S : y <= x
SetMin(S) == CHOOSE x \in S : \A y \in S : x <= y

(***************************************************************************)
(* Python str methods used by _normalize_columns.                          *)
(***************************************************************************)
UpperChars == <<"A","B","C","D","E","F","G","H","I","J","K","L","M",
                "N","O","P","Q","R","S","T","U","V","W","X","Y","Z">>
LowerChars == <<"a","b","c","d","e","f","g","h","i","j","k","l","m",
                "n","o","p","q","r","s","t","u","v","w","x","y","z">>
Whitespace == {" ", "\t", "\n"}

LowerMap == [c \in Range(UpperChars) |-> LowerChars[CHOOSE i \in 1..26 : UpperChars[i] = c]]

LowerChar(c) == IF c \in DOMAIN LowerMap THEN LowerMap[c] ELSE c

StrLower(s) == [i \in 1..Len(s) |-> LowerChar(s[i])]

\* str.replace(ch, "")
StrRemove(s, ch) == SelectSeq(s, LAMBDA c : c # ch)

\* str.strip()
RECURSIVE LStrip(_)
LStrip(s) == IF s # <<>> /\ s[1] \in Whitespace THEN LStrip(Tail(s)) ELSE s

RECURSIVE RStrip(_)
RStrip(s) ==
  IF s # <<>> /\ s[Len(s)] \in Whitespace THEN RStrip(SubSeq(s, 1, Len(s) - 1)) ELSE s

StrStrip(s) == RStrip(LStrip(s))

\* str.startswith(p)
StartsWith(s, p) == Len(s) >= Len(p) /\ SubSeq(s, 1, Len(p)) = p

(***************************************************************************)
(* Column names of build_rfm.py, as character sequences.                   *)
(***************************************************************************)
N_InvoiceNo == <<"I","n","v","o","i","c","e","N","o">>
N_Invoice == <<"I","n","v","o","i","c","e">>
N_InvoiceNoDot == <<"I","n","v","o","i","c","e","N","o",".">>
N_StockCode == <<"S","t","o","c","k","C","o","d","e">>
N_Stock_Code == <<"S","t","o","c","k"," ","C","o","d","e">>
N_Description == <<"D","e","s","c","r","i","p","t","i","o","n">>
N_Quantity == <<"Q","u","a","n","t","i","t","y">>
N_Qty == <<"Q","t","y">>
N_InvoiceDate == <<"I","n","v","o","i","c","e","D","a","t","e">>
N_Invoice_Date == <<"I","n","v","o","i","c","e"," ","D","a","t","e">>
N_UnitPrice == <<"U","n","i","t","P","r","i","c","e">>
N_Price == <<"P","r","i","c","e">>
N_Unit_Price == <<"U","n","i","t"," ","P","r","i","c","e">>
N_CustomerID == <<"C","u","s","t","o","m","e","r","I","D">>
N_Customer_ID == <<"C","u","s","t","o","m","e","r"," ","I","D">>
N_CustomerId == <<"C","u","s","t","o","m","e","r","I","d">>
N_Country == <<"C","o","u","n","t","r","y">>

\* REQUIRED_COLS, in order (also the insertion order of `mapping`)
REQUIRED_COLS == <<"InvoiceNo", "StockCode", "Description", "Quantity",
                   "InvoiceDate", "UnitPrice", "CustomerID", "Country">>

\* the canonical name of a field, as characters
FieldName(f) ==
  CASE f = "InvoiceNo"   -> N_InvoiceNo
    [] f = "StockCode"   -> N_StockCode
    [] f = "Description" -> N_Description
    [] f = "Quantity"    -> N_Quantity
    [] f = "InvoiceDate" -> N_InvoiceDate
    [] f = "UnitPrice"   -> N_UnitPrice
    [] f = "CustomerID"  -> N_CustomerID
    [] f = "Country"     -> N_Country

\* the ordered candidate list handed to pick() for each field
Candidates(f) ==
  CASE f = "InvoiceNo"   -> <<N_InvoiceNo, N_Invoice, N_InvoiceNoDot>>
    [] f = "StockCode"   -> <<N_StockCode, N_Stock_Code>>
    [] f = "Description" -> <<N_Description>>
    [] f = "Quantity"    -> <<N_Quantity, N_Qty>>
    [] f = "InvoiceDate" -> <<N_InvoiceDate, N_Invoice_Date>>
    [] f = "UnitPrice"   -> <<N_UnitPrice, N_Price, N_Unit_Price>>
    [] f = "CustomerID"  -> <<N_CustomerID, N_Customer_ID, N_CustomerId>>
    [] f = "Country"     -> <<N_Country>>

\* the lookup key of a name: strip, lower, spaces and underscores removed
NormKey(c) == StrRemove(StrRemove(StrLower(StrStrip(c)), " "), "_")

\* the keys of the candidates of each field (line 61)
CandidateKeys ==
  [f \in Range(REQUIRED_COLS) |->
     [i \in 1..Len(Candidates(f)) |-> NormKey(Candidates(f)[i])]]

\* df.columns = [str(c).strip() for c in df.columns]
StripColumns(cols) == [i \in 1..Len(cols) |-> StrStrip(cols[i])]

\* lookup = {key(c): c for c in df.columns}: a later column with the same
\* key overwrites an earlier one
Lookup(cols) ==
  LET keys == [i \in 1..Len(cols) |-> NormKey(cols[i])]
  IN  [key \in Range(keys) |-> cols[SetMax({i \in 1..Len(cols) : keys[i] = key})]]

NoColumn == <<"\n">>   \* None: no stripped column name equals it

\* pick taking the last candidate that matches instead of the first
pick_Last(lookup, keys) ==
  LET hits == {i \in 1..Len(keys) : keys[i] \in DOMAIN lookup}
  IN  IF hits = {} THEN NoColumn
      ELSE lookup[keys[CHOOSE i \in hits : \A j \in hits : j <= i]]

\* pick(*candidates): the first candidate whose key is in lookup
pick(lookup, keys) ==
  LET hits == {i \in 1..Len(keys) : keys[i] \in DOMAIN lookup}
  IN  IF hits = {} THEN NoColumn
      ELSE lookup[keys[CHOOSE i \in hits : \A j \in hits : i <= j]]

\* mapping[field] for the stripped columns
ColumnMapping(cols) ==
  LET lookup == Lookup(cols)
  IN  [f \in Range(REQUIRED_COLS) |-> pick(lookup, CandidateKeys[f])]

\* MissingFields reporting only the first field it finds missing
MissingFields_First(cols) ==
  LET m == ColumnMapping(cols)
      missing == SelectSeq(REQUIRED_COLS, LAMBDA f : m[f] = NoColumn)
  IN  IF missing = <<>> THEN <<>> ELSE <<missing[1]>>

\* missing = [k for k, v in mapping.items() if v is None]
MissingFields(cols) ==
  LET m == ColumnMapping(cols)
  IN  SelectSeq(REQUIRED_COLS, LAMBDA f : m[f] = NoColumn)

\* df.rename(columns={v: k for k, v in mapping.items()})
RenameColumns(cols) ==
  LET m == ColumnMapping(cols)
  IN  [i \in 1..Len(cols) |->
         IF \E f \in Range(REQUIRED_COLS) : m[f] = cols[i]
         THEN FieldName(CHOOSE f \in Range(REQUIRED_COLS) : m[f] = cols[i])
         ELSE cols[i]]

\* positions of the column(s) named after field f once renamed
ColumnsNamed(cols, f) == {i \in 1..Len(cols) : cols[i] = FieldName(f)}

(***************************************************************************)
(* Cells of the raw table: a number, a text, or a missing value.           *)
(***************************************************************************)
Num(n) == [t |-> "num", v |-> <<n>>]
Str(s) == [t |-> "str", v |-> s]
NaN    == [t |-> "nan", v |-> <<>>]
IsNa(c) == c.t = "nan"
Val(c)  == c.v[1]

DigitChars == <<"0","1","2","3","4","5","6","7","8","9">>
IsDigit(c) == \E i \in 1..10 : DigitChars[i] = c
DigitVal(c) == (CHOOSE i \in 1..10 : DigitChars[i] = c) - 1

RECURSIVE NatStr(_)
NatStr(n) ==
  IF n < 10 THEN <<DigitChars[n + 1]>>
  ELSE NatStr(n \div 10) \o <<DigitChars[(n % 10) + 1]>>

RECURSIVE ParseDigits(_, _)
ParseDigits(s, acc) ==
  IF s = <<>> THEN acc ELSE ParseDigits(Tail(s), 10 * acc + DigitVal(s[1]))

\* Series.astype(str) on one cell
AsStr(c) ==
  CASE c.t = "str" -> c.v
    [] c.t = "num" -> IF Val(c) < 0 THEN <<"-">> \o NatStr(-Val(c)) ELSE NatStr(Val(c))
    [] c.t = "nan" -> <<"n","a","n">>

\* pd.to_numeric(errors="coerce") on one cell: text that is not a number
\* becomes missing
ToNumeric(c) ==
  CASE c.t = "num" -> c
    [] c.t = "nan" -> NaN
    [] c.t = "str" ->
         LET s    == StrStrip(c.v)
             neg  == Len(s) > 0 /\ s[1] = "-"
             body == IF neg THEN Tail(s) ELSE s
         IN  IF body # <<>> /\ \A i \in 1..Len(body) : IsDigit(body[i])
             THEN Num(IF neg THEN -ParseDigits(body, 0) ELSE ParseDigits(body, 0))
             ELSE NaN

\* pd.to_datetime(errors="coerce") on one cell: a timestamp stays (as ticks,
\* TicksPerDay to the day); text that is no date becomes NaT
ToDatetime(c) == IF c.t = "num" THEN c ELSE NaN

\* line 99: the position of each required column
ColumnIndex(cols) ==
  [f \in Range(REQUIRED_COLS) |-> CHOOSE i \in 1..Len(cols) : cols[i] = FieldName(f)]

\* lines 99-106: the required columns of one raw row, converted
ConvertRow(ix, row) ==
  [InvoiceNo   |-> AsStr(row[ix["InvoiceNo"]]),
   StockCode   |-> row[ix["StockCode"]],
   Description |-> row[ix["Description"]],
   Quantity    |-> ToNumeric(row[ix["Quantity"]]),
   InvoiceDate |-> ToDatetime(row[ix["InvoiceDate"]]),
   UnitPrice   |-> ToNumeric(row[ix["UnitPrice"]]),
   CustomerID  |-> ToNumeric(row[ix["CustomerID"]]),
   Country     |-> row[ix["Country"]]]

ConvertRows(ix, rows) == [i \in 1..Len(rows) |-> ConvertRow(ix, rows[i])]

ConvertFrame(cols, rows) == ConvertRows(ColumnIndex(cols), rows)

\* line 116: is_cancel, by row position of df
IsCancel(df) == [i \in 1..Len(df) |-> StartsWith(df[i].InvoiceNo, <<"C">>)]

(***************************************************************************)
(* RecordCleaner, lines 118-125.  A frame is the sequence of positions of  *)
(* df it still holds; boolean masks are aligned on those positions.        *)
(***************************************************************************)
CriticalFields == {"InvoiceDate", "CustomerID", "UnitPrice", "Quantity"}

\* df.dropna(subset=[...])
DropNa(df, idx) ==
  SelectSeq(idx, LAMBDA i : \A f \in CriticalFields : ~IsNa(df[i][f]))

\* df_clean[~is_cancel]
DropMasked(mask, idx) == SelectSeq(idx, LAMBDA i : ~mask[i])
DropCancelled(df, idx) == DropMasked(IsCancel(df), idx)

\* Positive accepting zero
Positive_NonNegative(c) == c.t = "num" /\ Val(c) >= 0

\* a missing value compares False with 0
Positive(c) == c.t = "num" /\ Val(c) > 0

\* df_clean[(Quantity > 0) & (UnitPrice > 0)]
KeepPositive(df, idx) ==
  SelectSeq(idx, LAMBDA i : Positive(df[i].Quantity) /\ Positive(df[i].UnitPrice))

\* lines 119-122, in the order of the code
CleanIndex(df) ==
  KeepPositive(df, DropCancelled(df, DropNa(df, [i \in 1..Len(df) |-> i])))

\* line 125: LineTotal = Quantity * UnitPrice
WithLineTotal(df, idx) ==
  [k \in 1..Len(idx) |->
     [row       |-> idx[k],
      rec       |-> df[idx[k]],
      LineTotal |-> Val(df[idx[k]].Quantity) * Val(df[idx[k]].UnitPrice)]]

Clean(df) == WithLineTotal(df, CleanIndex(df))

(***************************************************************************)
(* RFMAggregator, lines 127-139.                                           *)
(***************************************************************************)
NaT == NaN

\* SnapshotDate without the added day
SnapshotDate_NoDay(clean) ==
  IF clean = <<>> THEN NaT
  ELSE Num(SetMax({Val(clean[k].rec.InvoiceDate) : k \in 1..Len(clean)}))

\* line 128: snapshot_date = max(InvoiceDate) + timedelta(days=1); the
\* maximum of no dates is NaT, and NaT plus a day is NaT
SnapshotDate(clean) ==
  IF clean = <<>> THEN NaT
  ELSE Num(SetMax({Val(clean[k].rec.InvoiceDate) : k \in 1..Len(clean)}) + TicksPerDay)

\* Timedelta.days: whole days of a non-negative difference
Days(ticks) == ticks \div TicksPerDay

\* the rows of one customer, in frame order
RowsOf(clean, cust) == SelectSeq(clean, LAMBDA r : Val(r.rec.CustomerID) = cust)

\* groupby("CustomerID"): the group keys, ascending
RECURSIVE SortedSeq(_)
SortedSeq(S) ==
  IF S = {} THEN <<>>
  ELSE LET m == CHOOSE x \in S : \A y \in S : x <= y
       IN  <<m>> \o SortedSeq(S \ {m})

\* one key per row instead of one per distinct customer
GroupKeys_PerRow(clean) == [k \in 1..Len(clean) |-> Val(clean[k].rec.CustomerID)]

GroupKeys(clean) == SortedSeq({Val(clean[k].rec.CustomerID) : k \in 1..Len(clean)})

\* recency_days = int((snapshot_date - x.max()).days)
RecencyDays(snapshot, rows) ==
  Days(Val(snapshot) - SetMax({Val(rows[k].rec.InvoiceDate) : k \in 1..Len(rows)}))

\* FrequencyInvoices counting line items instead of distinct invoices
FrequencyInvoices_Rows(rows) == Len(rows)

\* frequency_invoices = InvoiceNo.nunique()
FrequencyInvoices(rows) == Cardinality({rows[k].rec.InvoiceNo : k \in 1..Len(rows)})

\* monetary_value = LineTotal.sum()
MonetaryValue(rows) == SumSeq([k \in 1..Len(rows) |-> rows[k].LineTotal])

\* code points, in increasing order, of the characters the model uses
CharOrder == <<"\t", "\n", " ", "-", ".">> \o DigitChars \o UpperChars
               \o <<"_">> \o LowerChars
Ord(c) == CHOOSE i \in 1..Len(CharOrder) : CharOrder[i] = c

\* Python's str <
RECURSIVE StrLess(_, _)
StrLess(a, b) ==
  IF a = <<>> THEN b # <<>>
  ELSE IF b = <<>> THEN FALSE
  ELSE IF a[1] = b[1] THEN StrLess(Tail(a), Tail(b))
  ELSE Ord(a[1]) < Ord(b[1])

\* country = x.mode().iloc[0] if len(x.mode()) else x.iloc[0]: mode() drops
\* missing values and returns the most frequent ones sorted ascending
DominantCountry(rows) ==
  LET vals     == {rows[k].rec.Country.v : k \in {j \in 1..Len(rows) : ~IsNa(rows[j].rec.Country)}}
      count(v) == Cardinality({k \in 1..Len(rows) :
                                 ~IsNa(rows[k].rec.Country) /\ rows[k].rec.Country.v = v})
      modes    == {v \in vals : \A w \in vals : count(w) <= count(v)}
  IN  IF modes = {} THEN rows[1].rec.Country
      ELSE Str(CHOOSE v \in modes : \A w \in modes : w = v \/ StrLess(v, w))

\* the record of one group
RfmRecord(cust, snapshot, rows) ==
  [CustomerID         |-> cust,
   recency_days       |-> RecencyDays(snapshot, rows),
   frequency_invoices |-> FrequencyInvoices(rows),
   monetary_value     |-> MonetaryValue(rows),
   country            |-> DominantCountry(rows)]

AggregateGroups(clean, snapshot, keys) ==
  [g \in 1..Len(keys) |-> RfmRecord(keys[g], snapshot, RowsOf(clean, keys[g]))]

\* lines 130-139: one record per group key
Aggregate(clean) == AggregateGroups(clean, SnapshotDate(clean), GroupKeys(clean))

(***************************************************************************)
(* train_cluster_model.py: segment naming, lines 68-111.                   *)
(* grp maps each cluster id present to its medians, a record               *)
(* [Recency, Frequency, Monetary].                                         *)
(***************************************************************************)
RankCut == 2

\* Series.rank(method="dense"): the position of a value among the distinct
\* values in ranking order
DenseRankAscending(vals, v) ==
  LET sorted == SortedSeq(vals) IN CHOOSE i \in 1..Len(sorted) : sorted[i] = v
DenseRankDescending(vals, v) ==
  LET sorted == SortedSeq(vals) IN Len(sorted) + 1 - (CHOOSE i \in 1..Len(sorted) : sorted[i] = v)

\* mon_rank ranked the wrong way round
mon_rank_Ascending(grp, cl) ==
  DenseRankAscending({grp[c].Monetary : c \in DOMAIN grp}, grp[cl].Monetary)

\* lines 85-87
mon_rank(grp, cl) ==
  DenseRankDescending({grp[c].Monetary : c \in DOMAIN grp}, grp[cl].Monetary)
freq_rank(grp, cl) ==
  DenseRankDescending({grp[c].Frequency : c \in DOMAIN grp}, grp[cl].Frequency)
rec_rank(grp, cl) ==
  DenseRankAscending({grp[c].Recency : c \in DOMAIN grp}, grp[cl].Recency)

\* lines 91-101
ComputedName(grp, cl) ==
  LET strong == mon_rank(grp, cl) <= RankCut /\ freq_rank(grp, cl) <= RankCut
      recent == rec_rank(grp, cl) <= RankCut
  IN  IF strong /\ recent THEN "Champions"
      ELSE IF strong /\ ~recent THEN "Loyal (Re-engage)"
      ELSE IF (~strong) /\ recent THEN "New / Promising"
      ELSE "At Risk / Lost"

\* lines 89-101: names, keyed by cluster id in group (ascending) order
ComputedNames(grp) == [cl \in DOMAIN grp |-> ComputedName(grp, cl)]

\* line 107: f"{nm} ({cl})"
Suffixed(nm, cl) == nm \o " (" \o ToString(cl) \o ")"

\* the uniqueness loop suffixing with the id of the cluster that holds the name
RECURSIVE UniqueFrom_SeenId(_, _, _)
UniqueFrom_SeenId(names, order, seen) ==
  IF order = <<>> THEN names
  ELSE LET cl == order[1]
           nm == names[cl]
       IN  IF nm \in DOMAIN seen
           THEN UniqueFrom_SeenId([names EXCEPT ![cl] = Suffixed(nm, seen[nm])], Tail(order), seen)
           ELSE UniqueFrom_SeenId(names, Tail(order), (nm :> cl) @@ seen)

\* lines 104-109: the loop over names.items(), with the seen dict
RECURSIVE UniqueFrom(_, _, _)
UniqueFrom(names, order, seen) ==
  IF order = <<>> THEN names
  ELSE LET cl == order[1]
           nm == names[cl]
       IN  IF nm \in DOMAIN seen
           THEN UniqueFrom([names EXCEPT ![cl] = Suffixed(nm, cl)], Tail(order), seen)
           ELSE UniqueFrom(names, Tail(order), (nm :> cl) @@ seen)

\* _segment_names_by_cluster, from the names computed by lines 89-101
UniqueNames(names) == UniqueFrom(names, SortedSeq(DOMAIN names), <<>>)

(***************************************************************************)
(* State.  The two programs are run one at a time.                         *)
(* build_rfm.py: pc .. outputs.                                            *)
(***************************************************************************)
VARIABLES
  pc,            \* position of build_rfm.main
  columns,       \* df_raw.columns as read (line 95)
  mapping,       \* _normalize_columns: canonical field -> stripped raw column
  renamed,       \* df_raw.columns once stripped and renamed (line 83)
  raw,           \* the rows of df_raw, cells in column order
  df,            \* the converted required columns (lines 99-106)
  metrics,       \* the raw data-quality counters (lines 109-116)
  df_clean,      \* the cleaned frame with LineTotal (lines 119-125)
  snapshot_date, \* line 128
  rfm,           \* lines 130-139
  err,           \* the exception that ended the run, if any
  outputs        \* the files written so far, in order

etlVars == <<pc, columns, mapping, renamed, raw, df, metrics, df_clean, snapshot_date, rfm, err, outputs>>

NoErr == [type |-> "none", missing |-> <<>>, found |-> <<>>]
NoMetrics == [n_rows_raw |-> 0, null_invoice_date_raw |-> 0, null_customer_raw |-> 0,
              null_price_raw |-> 0, null_qty_raw |-> 0, cancellations |-> 0]

(***************************************************************************)
(* Input tables.  A table is a header and rows of cells.                   *)
(***************************************************************************)
CanonicalHeader == [i \in 1..Len(REQUIRED_COLS) |-> FieldName(REQUIRED_COLS[i])]

Row(inv, qty, date, price, cust, country) ==
  <<inv, Str(<<"8","5","A">>), Str(<<"m","u","g">>), qty, date, price, cust, country>>

UK == Str(<<"U","K">>)
FR == Str(<<"F","R">>)
BadText == Str(<<"n","-","a">>)

\* rows exercising every cleaning rule, alone and together: one missing
\* critical value at most, a cancellation or not, a sign fault or not
CleanPool ==
  {Row(inv, Num(2), Num(1), price, cust, UK) :
     inv \in {Num(11), Str(<<"C","1","1">>)},
     price \in {Num(3), Num(-1), BadText},
     cust \in {Num(1), NaN}}
  \cup
  {Row(inv, qty, date, Num(3), Num(1), UK) :
     inv \in {Num(11), Str(<<"C","1","1">>)},
     qty \in {Num(2), Num(0), BadText},
     date \in {Num(1), BadText}}
  \cup
  {Row(Str(<<"c","1","1">>), Num(2), Num(1), Num(3), Num(1), UK),
   Row(Num(11), Num(2), Num(1), Num(0), Num(1), UK),
   Row(Num(11), Num(-2), Num(1), Num(3), Num(1), UK),
   Row(Num(11), NaN, Num(1), Num(3), Num(1), UK)}

\* rows that differ in time and customer, and one cancellation later than
\* all of them
RecencyPool ==
  {Row(inv, Num(1), date, Num(3), cust, UK) :
     inv \in {Num(11)},
     date \in {Num(0), Num(1), Num(TicksPerDay + 1)},
     cust \in {Num(1), Str(<<"2">>)}}
  \cup {Row(Str(<<"C","1","3">>), Num(1), Num(2 * TicksPerDay), Num(3), Num(3), UK)}

\* rows that differ in invoice, quantity and customer
MonetaryPool ==
  {Row(inv, qty, Num(0), Num(3), cust, UK) :
     inv \in {Num(11), Str(<<"1","2">>)},
     qty \in {Num(1), Str(<<"2">>)},
     cust \in {Num(1), Num(2)}}

\* rows that differ in customer and country
CountryPool ==
  {Row(Num(11), Num(1), Num(0), Num(3), cust, country) :
     cust \in {Num(1), Num(2)}, country \in {UK, FR, NaN}}

RowTables ==
  {[header |-> CanonicalHeader, rows |-> rows] :
     rows \in SeqsUpTo(CleanPool, MaxRows - 1) \cup SeqsUpTo(RecencyPool, MaxRows)
              \cup SeqsUpTo(MonetaryPool, MaxRows) \cup SeqsUpTo(CountryPool, MaxRows)}

\* the raw names a table may use for each field: aliases, near misses,
\* several columns at once, or none
HeaderOptions(f) ==
  CASE f = "InvoiceNo" ->
      {<<>>, <<<<"I","n","v","o","i","c","e","N","o">>>>, <<<<"I","n","v","o","i","c","e">>>>, <<<<"I","n","v","o","i","c","e","N","o",".">>>>, <<<<"i","n","v","o","i","c","e","_","n","o">>>>, <<<<"I","n","v","o","i","c","e">>, <<"I","n","v","o","i","c","e","N","o">>>>, <<<<"I","n","v","o","i","c","e","N","o",".">>, <<"I","n","v","o","i","c","e">>>>, <<<<"I","n","v","o","i","c","e","N","u","m","b","e","r">>>>, <<<<"I","n","v","o","i","c","e"," ","N","o">>, <<"I","n","v","o","i","c","e","N","o">>>>, <<<<"I","n","v","o","i","c","e","N","o">>, <<"I","n","v","o","i","c","e"," ","N","o">>>>}
    [] f = "StockCode" ->
      {<<<<"S","t","o","c","k","C","o","d","e">>>>, <<<<"S","t","o","c","k"," ","C","o","d","e">>>>}
    [] f = "Description" ->
      {<<<<"D","e","s","c","r","i","p","t","i","o","n">>>>}
    [] f = "Quantity" ->
      {<<>>, <<<<"Q","u","a","n","t","i","t","y">>>>, <<<<"Q","t","y">>>>, <<<<"Q","u","a","n","t","i","t">>>>}
    [] f = "InvoiceDate" ->
      {<<<<"I","n","v","o","i","c","e","D","a","t","e">>>>, <<<<" ","I","n","v","o","i","c","e"," ","D","a","t","e">>>>, <<<<"D","a","t","e">>>>}
    [] f = "UnitPrice" ->
      {<<>>, <<<<"P","r","i","c","e">>>>, <<<<"U","n","i","t"," ","P","r","i","c","e">>>>, <<<<"P","r","i","c","e">>, <<"U","n","i","t","P","r","i","c","e">>>>, <<<<"u","n","i","t","_","p","r","i","c","e">>, <<"P","r","i","c","e">>>>}
    [] f = "CustomerID" ->
      {<<>>, <<<<"C","u","s","t","o","m","e","r"," ","I","D">>>>, <<<<"c","u","s","t","o","m","e","r","_","i","d">>>>, <<<<"C","u","s","t","o","m","e","r","I","d"," ">>>>}
    [] f = "Country" ->
      {<<>>, <<<<"C","o","u","n","t","r","y">>>>}

\* the cell of data row r under the p-th column a table has for field f
SchemaCell(f, p, r) == IF f = "Country" THEN UK ELSE Num(10 * p + r)

SchemaRows == 2

SchemaTable(choice) ==
  [header |-> Flatten([i \in 1..Len(REQUIRED_COLS) |-> choice[REQUIRED_COLS[i]]]),
   rows   |-> [r \in 1..SchemaRows |->
                 Flatten([i \in 1..Len(REQUIRED_COLS) |->
                            [p \in 1..Len(choice[REQUIRED_COLS[i]]) |->
                               SchemaCell(REQUIRED_COLS[i], p, r)]])]]

SchemaTables ==
  {SchemaTable(choice) :
     choice \in [InvoiceNo   : HeaderOptions("InvoiceNo"),
                 StockCode   : HeaderOptions("StockCode"),
                 Description : HeaderOptions("Description"),
                 Quantity    : HeaderOptions("Quantity"),
                 InvoiceDate : HeaderOptions("InvoiceDate"),
                 UnitPrice   : HeaderOptions("UnitPrice"),
                 CustomerID  : HeaderOptions("CustomerID"),
                 Country     : HeaderOptions("Country")]}

InputTables == RowTables \cup SchemaTables

\* train_cluster_model.py: tpc .. toutputs
VARIABLES
  tpc,          \* position of train_cluster_model.main
  args,         \* [k, auto_k] (lines 118-119)
  rfm_columns,  \* the columns of the RFM file (line 125)
  n_customers,  \* its number of rows
  n_points,     \* the number of distinct feature vectors among them
  medians,      \* per cluster id, the medians its customers would have
  scan_k,       \* the loop variable k of line 141
  best_k,       \* line 137
  best_score,   \* line 138
  scores,       \* the score computed for each k so far (line 144)
  computed,     \* names after lines 89-101
  name_map,     \* line 160
  terr,         \* the exception that ended the run, if any
  toutputs      \* the files written so far, in order

trainVars == <<tpc, args, rfm_columns, n_customers, n_points, medians, scan_k, best_k,
               best_score, scores, computed, name_map, terr, toutputs>>

vars == <<etlVars, trainVars>>

\* train_cluster_model.py is not running
TrainIdle ==
  /\ tpc = "idle" /\ args = [k |-> 0, auto_k |-> FALSE] /\ rfm_columns = {}
  /\ n_customers = 0 /\ n_points = 0 /\ medians = <<>> /\ scan_k = 0
  /\ best_k = 0 /\ best_score = 0 /\ scores = <<>> /\ computed = <<>>
  /\ name_map = <<>> /\ terr = [type |-> "none", at |-> "none"] /\ toutputs = <<>>

(***************************************************************************)
(* build_rfm.main, one action per stage.                                   *)
(***************************************************************************)
InitEtl ==
  /\ pc = "start"
  /\ \E t \in InputTables : columns = t.header /\ raw = t.rows
  /\ mapping = [f \in Range(REQUIRED_COLS) |-> NoColumn]
  /\ renamed = <<>>
  /\ df = <<>>
  /\ metrics = NoMetrics
  /\ df_clean = <<>>
  /\ snapshot_date = NaT
  /\ rfm = <<>>
  /\ err = NoErr
  /\ outputs = <<>>
  /\ TrainIdle

\* lines 93-96, _normalize_columns returns
NormalizeOk ==
  /\ pc = "start"
  /\ MissingFields(StripColumns(columns)) = <<>>
  /\ mapping' = ColumnMapping(StripColumns(columns))
  /\ renamed' = RenameColumns(StripColumns(columns))
  /\ pc' = "normalized"
  /\ UNCHANGED <<columns, raw, df, metrics, df_clean, snapshot_date, rfm, err, outputs>>
  /\ UNCHANGED trainVars

\* lines 76-81, _normalize_columns raises
NormalizeFail ==
  /\ pc = "start"
  /\ MissingFields(StripColumns(columns)) # <<>>
  /\ err' = [type    |-> "ValueError",
             missing |-> MissingFields(StripColumns(columns)),
             found   |-> StripColumns(columns)]
  /\ mapping' = ColumnMapping(StripColumns(columns))
  /\ pc' = "failed"
  /\ UNCHANGED <<columns, renamed, raw, df, metrics, df_clean, snapshot_date, rfm, outputs>>
  /\ UNCHANGED trainVars

\* a required name carried by two columns selects a frame, which has no
\* .str accessor (line 116)
AmbiguousColumns(cols) ==
  \E f \in Range(REQUIRED_COLS) : Cardinality(ColumnsNamed(cols, f)) > 1

\* Series.isna().sum()
CountNa(d, f) == Cardinality({i \in 1..Len(d) : IsNa(d[i][f])})

\* lines 109-116, computed on the frame before any filter
RawMetrics(d) ==
  [n_rows_raw            |-> Len(d),
   null_invoice_date_raw |-> CountNa(d, "InvoiceDate"),
   null_customer_raw     |-> CountNa(d, "CustomerID"),
   null_price_raw        |-> CountNa(d, "UnitPrice"),
   null_qty_raw          |-> CountNa(d, "Quantity"),
   cancellations         |->
     Cardinality({i \in 1..Len(d) : StartsWith(d[i].InvoiceNo, <<"C">>)})]

\* lines 99-116
ConvertOk ==
  /\ pc = "normalized"
  /\ ~AmbiguousColumns(renamed)
  /\ df' = ConvertFrame(renamed, raw)
  /\ metrics' = RawMetrics(df')
  /\ pc' = "converted"
  /\ UNCHANGED <<columns, mapping, renamed, raw, df_clean, snapshot_date, rfm, err, outputs>>
  /\ UNCHANGED trainVars

ConvertFail ==
  /\ pc = "normalized"
  /\ AmbiguousColumns(renamed)
  /\ err' = [type |-> "AttributeError", missing |-> <<>>, found |-> renamed]
  /\ pc' = "failed"
  /\ UNCHANGED <<columns, mapping, renamed, raw, df, metrics, df_clean, snapshot_date, rfm, outputs>>
  /\ UNCHANGED trainVars

\* lines 118-125
CleanRows ==
  /\ pc = "converted"
  /\ df_clean' = Clean(df)
  /\ pc' = "cleaned"
  /\ UNCHANGED <<columns, mapping, renamed, raw, df, metrics, snapshot_date, rfm, err, outputs>>
  /\ UNCHANGED trainVars

\* lines 127-139; an empty frame has no groups and aggregates to no records
AggregateRfm ==
  /\ pc = "cleaned"
  /\ snapshot_date' = SnapshotDate(df_clean)
  /\ rfm' = Aggregate(df_clean)
  /\ pc' = "aggregated"
  /\ UNCHANGED <<columns, mapping, renamed, raw, df, metrics, df_clean, err, outputs>>
  /\ UNCHANGED trainVars

\* line 146
WriteTransactions ==
  /\ pc = "aggregated"
  /\ outputs' = Append(outputs, [file |-> "transactions_clean.csv", records |-> Len(df_clean)])
  /\ pc' = "tx_written"
  /\ UNCHANGED <<columns, mapping, renamed, raw, df, metrics, df_clean, snapshot_date, rfm, err>>
  /\ UNCHANGED trainVars

\* line 147
WriteRfm ==
  /\ pc = "tx_written"
  /\ outputs' = Append(outputs, [file |-> "customers_rfm.csv", records |-> Len(rfm)])
  /\ pc' = "rfm_written"
  /\ UNCHANGED <<columns, mapping, renamed, raw, df, metrics, df_clean, snapshot_date, rfm, err>>
  /\ UNCHANGED trainVars

\* lines 150-173
WriteReport ==
  /\ pc = "rfm_written"
  /\ outputs' = Append(outputs, [file |-> "data_quality_report.md", records |-> metrics.n_rows_raw])
  /\ pc' = "done"
  /\ UNCHANGED <<columns, mapping, renamed, raw, df, metrics, df_clean, snapshot_date, rfm, err>>
  /\ UNCHANGED trainVars

\* to_csv or open raises (OSError): nothing undoes the files written before
WriteRaises ==
  /\ err' = [type |-> "OSError", missing |-> <<>>, found |-> <<>>]
  /\ pc' = "failed"
  /\ UNCHANGED <<columns, mapping, renamed, raw, df, metrics, df_clean, snapshot_date, rfm, outputs>>
  /\ UNCHANGED trainVars

\* line 146 raises
WriteTransactionsFail == pc = "aggregated" /\ WriteRaises

\* line 147 raises
WriteRfmFail == pc = "tx_written" /\ WriteRaises

\* line 150 raises
WriteReportFail == pc = "rfm_written" /\ WriteRaises

NextEtl ==
  \/ NormalizeOk
  \/ NormalizeFail
  \/ ConvertOk
  \/ ConvertFail
  \/ CleanRows
  \/ AggregateRfm
  \/ WriteTransactions
  \/ WriteRfm
  \/ WriteReport
  \/ WriteTransactionsFail
  \/ WriteRfmFail
  \/ WriteReportFail

(***************************************************************************)
(* train_cluster_model.py: state, inputs and main.                         *)
(* Silhouette scores are in hundredths.  The two library calls are         *)
(* modelled by their contracts: KMeans(n_clusters=k).fit_predict raises    *)
(* ValueError when there are fewer samples than clusters and otherwise     *)
(* finds as many distinct clusters as it can, min(k, distinct points);     *)
(* silhouette_score raises ValueError unless                               *)
(* 2 <= distinct labels <= samples - 1.                                    *)
(***************************************************************************)
MaxCustomers == 6
MaxClusters == 3
KScanFirst == 2
KScanLast == 10
DefaultK == 4
InitialBestScore == -100

FineScored == 3

\* values silhouette_score returns, in hundredths; the mean is above -1,
\* since a point scores -1 only against a cluster of copies of itself,
\* whose points score 0 or more
ScoreValues == {-99, 41, 55}

\* the scores drawn for a fixed k: the lowest and the highest
FixedScores == ScoreValues \ {41}

\* the scores drawn for candidate kk of the scan: every value for the first
\* FineScored candidates, the lowest and the highest for the later ones
ScanScores(kk) ==
  IF kk < KScanFirst + FineScored THEN ScoreValues ELSE FixedScores

RfmFileColumns == {"CustomerID", "recency_days", "frequency_invoices", "monetary_value", "country"}

\* lines 47-59: the renames of _normalize_columns
TrainRename(cols) ==
  {IF c = "recency_days" THEN "Recency"
   ELSE IF c = "frequency_invoices" THEN "Frequency"
   ELSE IF c = "monetary_value" THEN "Monetary"
   ELSE IF c = "customer_id" /\ "CustomerID" \notin cols THEN "CustomerID"
   ELSE c : c \in cols}

\* lines 61-62
TrainMissing(cols) ==
  SelectSeq(<<"CustomerID", "Recency", "Frequency", "Monetary">>,
            LAMBDA c : c \notin TrainRename(cols))

Median(r, f, m) == [Recency |-> r, Frequency |-> f, Monetary |-> m]

MedianPool ==
  {Median(r, fm[1], fm[2]) :
     r \in {1, 2, 3}, fm \in {<<2, 2>>, <<3, 3>>, <<1, 2>>, <<2, 1>>}}

\* medians that all differ, and medians that are all equal
SpreadMedians == [c \in 0..KScanLast |-> Median(c + 1, c + 1, c + 1)]
EqualMedians == [c \in 0..KScanLast |-> Median(1, 1, 1)]

NoArgs == [k |-> DefaultK, auto_k |-> FALSE]

\* the distinct points n customers may have: all alike, two kinds, one
\* pair alike, all different
PointCounts(n) == IF n = 0 THEN {0} ELSE {1, 2, n - 1, n} \cap 1..n

\* runs with a fixed k that differ in the number of customers, of distinct
\* points and in k
FixedInputs ==
  UNION {{[args |-> [k |-> kk, auto_k |-> FALSE], cols |-> RfmFileColumns,
           n |-> n, d |-> d, med |-> m] :
            kk \in 1..(MaxCustomers + 1),
            d \in PointCounts(n),
            m \in {SpreadMedians, EqualMedians}} : n \in 0..MaxCustomers}

\* runs with --auto_k, of up to one customer more than the last candidate k
AutoInputs ==
  UNION {{[args |-> [k |-> kk, auto_k |-> TRUE], cols |-> RfmFileColumns,
           n |-> n, d |-> d, med |-> SpreadMedians] :
            kk \in {DefaultK, KScanLast + 1},
            d \in PointCounts(n)} : n \in 0..(KScanLast + 1)}

\* runs that differ in the medians of kk clusters
LabelInputs(kk) ==
  {[args |-> [k |-> kk, auto_k |-> FALSE], cols |-> RfmFileColumns,
    n |-> MaxClusters + 1, d |-> MaxClusters + 1, med |-> m] :
     m \in [0..(kk - 1) -> MedianPool]}

\* runs that differ in the columns of the RFM file
ColumnInputs ==
  {[args |-> NoArgs, cols |-> c, n |-> DefaultK + 1, d |-> DefaultK + 1, med |-> SpreadMedians] :
     c \in {RfmFileColumns,
            {"customer_id", "recency_days", "frequency_invoices", "monetary_value"},
            {"CustomerID", "Recency", "Frequency", "Monetary"},
            {"CustomerID", "recency_days", "frequency_invoices"},
            {"recency_days", "monetary_value"}}}

\* the input families: 1 for the runs that differ in customers, k and
\* columns, kk >= 2 for the runs that differ in the medians of kk clusters
TrainInputs(kk) ==
  IF kk = 1 THEN FixedInputs \cup AutoInputs \cup ColumnInputs ELSE LabelInputs(kk)

NoTrainErr == [type |-> "none", at |-> "none"]

\* build_rfm.py is not running
EtlIdle ==
  /\ pc = "idle" /\ columns = <<>> /\ raw = <<>> /\ df = <<>>
  /\ mapping = [f \in Range(REQUIRED_COLS) |-> NoColumn] /\ renamed = <<>>
  /\ metrics = NoMetrics /\ df_clean = <<>> /\ snapshot_date = NaT
  /\ rfm = <<>> /\ err = NoErr /\ outputs = <<>>

InitTrain ==
  /\ tpc = "start"
  /\ \E kk \in 1..MaxClusters : \E i \in TrainInputs(kk) :
       /\ args = i.args
       /\ rfm_columns = i.cols
       /\ n_customers = i.n
       /\ n_points = i.d
       /\ medians = i.med
  /\ scan_k = 0
  /\ best_k = 0
  /\ best_score = 0
  /\ scores = <<>>
  /\ computed = <<>>
  /\ name_map = <<>>
  /\ terr = NoTrainErr
  /\ toutputs = <<>>
  /\ EtlIdle

TrainFail(type, at) ==
  /\ tpc' = "failed"
  /\ terr' = [type |-> type, at |-> at]
  /\ UNCHANGED <<args, rfm_columns, n_customers, n_points, medians, scan_k, best_k,
                 best_score, scores, computed, name_map, toutputs>>
  /\ UNCHANGED etlVars

\* KMeans(n_clusters=kk).fit_predict(Xs) raises
KMeansRaises(kk) == n_customers < kk

\* the number of distinct labels of a fit with kk clusters
DistinctLabels(kk) == IF kk <= n_points THEN kk ELSE n_points

\* silhouette_score(Xs, labels) raises
SilhouetteRaises(kk) == ~(2 <= DistinctLabels(kk) /\ DistinctLabels(kk) <= n_customers - 1)

\* line 145 taking only a positive score for an improvement
Improves_Positive(score, best) == score > best /\ score > 0

\* line 145 with >= in place of >
Improves_OrEqual(score, best) == score >= best

\* line 145: score > best_score
Improves(score, best) == score > best

\* lines 125-126, the file has the columns
LoadOk ==
  /\ tpc = "start"
  /\ TrainMissing(rfm_columns) = <<>>
  /\ rfm_columns' = TrainRename(rfm_columns)
  /\ tpc' = "loaded"
  /\ UNCHANGED <<args, n_customers, n_points, medians, scan_k, best_k, best_score,
                 scores, computed, name_map, terr, toutputs>>
  /\ UNCHANGED etlVars

\* lines 63-64
LoadFail ==
  /\ tpc = "start"
  /\ TrainMissing(rfm_columns) # <<>>
  /\ TrainFail("ValueError", "_normalize_columns")

\* lines 129-138; StandardScaler accepts one sample or more
Prepare ==
  /\ tpc = "loaded"
  /\ n_customers >= 1
  /\ best_k' = args.k
  /\ best_score' = InitialBestScore
  /\ scan_k' = IF args.auto_k THEN KScanFirst ELSE 0
  /\ tpc' = IF args.auto_k THEN "scan" ELSE "fixed"
  /\ UNCHANGED <<args, rfm_columns, n_customers, n_points, medians, scores,
                 computed, name_map, terr, toutputs>>
  /\ UNCHANGED etlVars

PrepareFail ==
  /\ tpc = "loaded"
  /\ n_customers = 0
  /\ TrainFail("ValueError", "StandardScaler")

\* lines 141-147, one iteration
ScanStep ==
  /\ tpc = "scan"
  /\ scan_k <= KScanLast
  /\ ~KMeansRaises(scan_k) /\ ~SilhouetteRaises(scan_k)
  /\ \E score \in ScanScores(scan_k) :
       /\ scores' = Append(scores, score)
       /\ IF Improves(score, best_score)
          THEN best_score' = score /\ best_k' = scan_k
          ELSE UNCHANGED <<best_score, best_k>>
  /\ scan_k' = scan_k + 1
  /\ UNCHANGED <<tpc, args, rfm_columns, n_customers, n_points, medians,
                 computed, name_map, terr, toutputs>>
  /\ UNCHANGED etlVars

ScanFailKMeans ==
  /\ tpc = "scan"
  /\ scan_k <= KScanLast
  /\ KMeansRaises(scan_k)
  /\ TrainFail("ValueError", "KMeans")

ScanFailSilhouette ==
  /\ tpc = "scan"
  /\ scan_k <= KScanLast
  /\ ~KMeansRaises(scan_k) /\ SilhouetteRaises(scan_k)
  /\ TrainFail("ValueError", "silhouette_score")

\* the loop of line 141 ends
ScanDone ==
  /\ tpc = "scan"
  /\ scan_k > KScanLast
  /\ tpc' = "selected"
  /\ UNCHANGED <<args, rfm_columns, n_customers, n_points, medians, scan_k, best_k,
                 best_score, scores, computed, name_map, terr, toutputs>>
  /\ UNCHANGED etlVars

\* lines 149-151
FixedFit ==
  /\ tpc = "fixed"
  /\ ~KMeansRaises(best_k) /\ ~SilhouetteRaises(best_k)
  /\ \E score \in FixedScores :
       /\ best_score' = score
       /\ scores' = <<score>>
  /\ tpc' = "selected"
  /\ UNCHANGED <<args, rfm_columns, n_customers, n_points, medians, scan_k, best_k,
                 computed, name_map, terr, toutputs>>
  /\ UNCHANGED etlVars

FixedFailKMeans ==
  /\ tpc = "fixed"
  /\ KMeansRaises(best_k)
  /\ TrainFail("ValueError", "KMeans")

FixedFailSilhouette ==
  /\ tpc = "fixed"
  /\ ~KMeansRaises(best_k) /\ SilhouetteRaises(best_k)
  /\ TrainFail("ValueError", "silhouette_score")

\* the ids a fit with kk clusters may leave non-empty
ClusterIdSets(kk) ==
  IF DistinctLabels(kk) = kk THEN {0..(kk - 1)}
  ELSE IF kk <= MaxClusters
       THEN {S \in SUBSET (0..(kk - 1)) : Cardinality(S) = DistinctLabels(kk)}
       ELSE {0..(DistinctLabels(kk) - 1), (kk - DistinctLabels(kk))..(kk - 1)}

\* lines 154-161: the final fit, which succeeds as the fit of the same k
\* did, and the names by the medians of the clusters it leaves non-empty
FitFinal ==
  /\ tpc = "selected"
  /\ \E ids \in ClusterIdSets(best_k) :
       /\ computed' = ComputedNames([c \in ids |-> medians[c]])
       /\ name_map' = UniqueNames(computed')
  /\ tpc' = "named"
  /\ UNCHANGED <<args, rfm_columns, n_customers, n_points, medians, scan_k, best_k,
                 best_score, scores, terr, toutputs>>
  /\ UNCHANGED etlVars

\* line 164
WriteScored ==
  /\ tpc = "named"
  /\ toutputs' = Append(toutputs, "customers_rfm_scored.csv")
  /\ tpc' = "scored_written"
  /\ UNCHANGED <<args, rfm_columns, n_customers, n_points, medians, scan_k, best_k,
                 best_score, scores, computed, name_map, terr>>
  /\ UNCHANGED etlVars

\* line 166
DumpModel ==
  /\ tpc = "scored_written"
  /\ toutputs' = Append(toutputs, "model/kmeans_model.pkl")
  /\ tpc' = "model_dumped"
  /\ UNCHANGED <<args, rfm_columns, n_customers, n_points, medians, scan_k, best_k,
                 best_score, scores, computed, name_map, terr>>
  /\ UNCHANGED etlVars

\* lines 168-187
WriteModelReport ==
  /\ tpc = "model_dumped"
  /\ toutputs' = Append(toutputs, "model/model_report.md")
  /\ tpc' = "done"
  /\ UNCHANGED <<args, rfm_columns, n_customers, n_points, medians, scan_k, best_k,
                 best_score, scores, computed, name_map, terr>>
  /\ UNCHANGED etlVars

\* line 164 raises (OSError)
WriteScoredFail == tpc = "named" /\ TrainFail("OSError", "to_csv")

\* line 166 raises (OSError)
DumpModelFail == tpc = "scored_written" /\ TrainFail("OSError", "joblib.dump")

\* lines 169-182 raise: OSError from open, or ImportError from to_markdown
\* where the optional tabulate package is not installed
WriteModelReportFail ==
  /\ tpc = "model_dumped"
  /\ \E type \in {"OSError", "ImportError"} : TrainFail(type, "model_report")

NextTrain ==
  \/ LoadOk
  \/ LoadFail
  \/ Prepare
  \/ PrepareFail
  \/ ScanStep
  \/ ScanFailKMeans
  \/ ScanFailSilhouette
  \/ ScanDone
  \/ FixedFit
  \/ FixedFailKMeans
  \/ FixedFailSilhouette
  \/ FitFinal
  \/ WriteScored
  \/ DumpModel
  \/ WriteModelReport
  \/ WriteScoredFail
  \/ DumpModelFail
  \/ WriteModelReportFail

(***************************************************************************)
(* Properties of build_rfm.py.                                             *)
(***************************************************************************)
AfterClean == {"cleaned", "aggregated", "tx_written", "rfm_written", "done"}
AfterAggregate == {"aggregated", "tx_written", "rfm_written", "done"}

\* the three cleaning rules, read off the converted row
RuleNotNull(r) ==
  /\ r.InvoiceDate.t # "nan" /\ r.CustomerID.t # "nan"
  /\ r.Quantity.t # "nan" /\ r.UnitPrice.t # "nan"
RuleNotCancelled(r) == ~(Len(r.InvoiceNo) >= 1 /\ r.InvoiceNo[1] = "C")
RulePositive(r) ==
  /\ r.Quantity.t = "num" /\ r.Quantity.v[1] > 0
  /\ r.UnitPrice.t = "num" /\ r.UnitPrice.v[1] > 0

RuleFilter(n, d, idx) ==
  CASE n = 1 -> SelectSeq(idx, LAMBDA i : RuleNotNull(d[i]))
    [] n = 2 -> SelectSeq(idx, LAMBDA i : RuleNotCancelled(d[i]))
    [] n = 3 -> SelectSeq(idx, LAMBDA i : RulePositive(d[i]))

RulesInOrder(o, d) ==
  RuleFilter(o[3], d, RuleFilter(o[2], d, RuleFilter(o[1], d, [i \in 1..Len(d) |-> i])))

KeptRows == [k \in 1..Len(df_clean) |-> df_clean[k].row]

\* C1: a converted row is in the cleaned frame exactly when it passes the
\* null rule, the cancellation rule and the sign rule; applying the three
\* rules in any of the six orders gives the cleaned frame; a kept row is the
\* converted row unchanged, once, in the original order.
C1_CleanedMembership ==
  pc \in AfterClean =>
    /\ Range(KeptRows) =
         {i \in 1..Len(df) : RuleNotNull(df[i]) /\ RuleNotCancelled(df[i]) /\ RulePositive(df[i])}
    /\ \A o \in Permutations({1, 2, 3}) : RulesInOrder(o, df) = KeptRows
    /\ \A k \in 1..Len(df_clean) :
         /\ df_clean[k].rec = df[df_clean[k].row]
         /\ \A l \in 1..Len(df_clean) : k < l => df_clean[k].row < df_clean[l].row

\* a frame of two rows: one kept, one that is a cancellation and also has a
\* non-positive or missing quantity
C1_Witness ==
  /\ pc = "cleaned" /\ Len(df) = 2 /\ Len(df_clean) = 1
  /\ \E i \in 1..2 : ~RuleNotCancelled(df[i]) /\ ~RulePositive(df[i])

CustomerDates(c) ==
  {df_clean[k].rec.InvoiceDate.v[1] :
     k \in {j \in 1..Len(df_clean) : df_clean[j].rec.CustomerID.v[1] = c}}
AllDates == {df_clean[k].rec.InvoiceDate.v[1] : k \in 1..Len(df_clean)}

\* C2: for a non-empty cleaned frame the snapshot date is the latest
\* transaction time plus one day and later than every transaction; each
\* customer's recency is the whole days between the snapshot and the
\* customer's latest transaction, at least 1, and exactly 1 when that
\* transaction is the latest of all.
C2_SnapshotAndRecency ==
  (pc \in AfterAggregate /\ df_clean # <<>>) =>
    /\ snapshot_date.t = "num"
    /\ snapshot_date.v[1] = SetMax(AllDates) + TicksPerDay
    /\ \A d \in AllDates : snapshot_date.v[1] > d
    /\ \A g \in 1..Len(rfm) :
         LET last == SetMax(CustomerDates(rfm[g].CustomerID))
             gap  == snapshot_date.v[1] - last
         IN  /\ rfm[g].recency_days >= 1
             /\ rfm[g].recency_days * TicksPerDay <= gap
             /\ gap < (rfm[g].recency_days + 1) * TicksPerDay
             /\ (last = SetMax(AllDates) => rfm[g].recency_days = 1)

\* two customers, one whose latest transaction is the latest of all and one
\* whose latest transaction is at least a day older
C2_Witness ==
  /\ pc = "aggregated" /\ Len(rfm) = 2
  /\ \E g, h \in 1..2 : rfm[g].recency_days = 1 /\ rfm[h].recency_days >= 2

CustomerRowSet(c) == {k \in 1..Len(df_clean) : df_clean[k].rec.CustomerID.v[1] = c}

RECURSIVE SumOver(_, _)
SumOver(S, f) ==
  IF S = {} THEN 0
  ELSE LET x == CHOOSE y \in S : TRUE IN f[x] + SumOver(S \ {x}, f)

LineRevenue ==
  [k \in 1..Len(df_clean) |->
     df_clean[k].rec.Quantity.v[1] * df_clean[k].rec.UnitPrice.v[1]]

\* C3: each customer's frequency is the number of distinct invoice ids among
\* the customer's cleaned rows and the monetary value is the sum of quantity
\* times unit price over those rows, which is positive.
C3_FrequencyAndMonetary ==
  pc \in AfterAggregate =>
    \A g \in 1..Len(rfm) :
      LET rows == CustomerRowSet(rfm[g].CustomerID)
      IN  /\ rfm[g].frequency_invoices =
               Cardinality({df_clean[k].rec.InvoiceNo : k \in rows})
          /\ rfm[g].monetary_value = SumOver(rows, LineRevenue)
          /\ rfm[g].monetary_value > 0

\* a customer with three line items on two invoices
C3_Witness ==
  /\ pc = "aggregated"
  /\ \E g \in 1..Len(rfm) :
       /\ rfm[g].frequency_invoices = 2
       /\ Cardinality(CustomerRowSet(rfm[g].CustomerID)) = 3
       /\ rfm[g].monetary_value > 9

\* the normalization of a name: lowercase, spaces and underscores removed
PlainKey(s) == SelectSeq(StrLower(s), LAMBDA c : c \notin {" ", "_"})

\* the normalized variants of each field, in list order
PlainVariants ==
  [f \in Range(REQUIRED_COLS) |->
     [i \in 1..Len(Candidates(f)) |-> PlainKey(Candidates(f)[i])]]

RawKeys == {PlainKey(columns[i]) : i \in 1..Len(columns)}

FirstVariantResolved(rawKeys, stripped) ==
  \A f \in Range(REQUIRED_COLS) :
    LET hits == {i \in 1..Len(PlainVariants[f]) : PlainVariants[f][i] \in rawKeys}
    IN  IF hits = {} THEN mapping[f] = NoColumn
        ELSE /\ mapping[f] \in stripped
             /\ PlainKey(mapping[f]) = PlainVariants[f][SetMin(hits)]

\* C7: the column resolved for a field is a raw column whose normalized
\* name is the first variant of the field's list that equals a normalized
\* raw column name; a field no variant of which equals one is unresolved.
C7_FirstVariantWins ==
  pc \in {"normalized", "failed"} =>
    FirstVariantResolved(RawKeys, {StrStrip(columns[i]) : i \in 1..Len(columns)})

\* a table with both Invoice and InvoiceNo resolves InvoiceNo, and one with
\* only Qty falls back to it
C7_Witness ==
  /\ pc = "normalized"
  /\ N_Invoice \in Range(columns) /\ mapping["InvoiceNo"] = N_InvoiceNo
  /\ mapping["Quantity"] = N_Qty

UnmatchedIn(rawKeys) ==
  {f \in Range(REQUIRED_COLS) :
     \A i \in 1..Len(PlainVariants[f]) : PlainVariants[f][i] \notin rawKeys}

SchemaFailure(unmatched) ==
  /\ pc' = "failed"
  /\ err'.type = "ValueError"
  /\ err'.missing = SelectSeq(REQUIRED_COLS, LAMBDA f : f \in unmatched)
  /\ err'.found = [i \in 1..Len(columns) |-> StrStrip(columns[i])]
  /\ UNCHANGED <<df, metrics, df_clean, snapshot_date, rfm, outputs>>

\* C8: from the start of a run on a table that lacks a column for some
\* required field, the only step is the failure with the error that names
\* exactly the missing fields and lists every raw column, with no frame
\* converted, cleaned or aggregated and nothing written; a failed run takes
\* no further step.
C8_SchemaErrorFirst ==
  [][/\ pc # "failed"
     /\ (pc = "start" /\ UnmatchedIn(RawKeys) # {}) => SchemaFailure(UnmatchedIn(RawKeys))]_etlVars

\* a run that failed naming two missing fields, with rows in the table
C8_Witness ==
  /\ pc = "failed" /\ err.type = "ValueError"
  /\ Len(err.missing) = 2 /\ Len(raw) > 0 /\ Len(err.found) > 2

\* C9: a run whose cleaning removed every row of a non-empty table, or whose
\* aggregation has no customer, does not complete.
C9_EmptyDatasetFails ==
  (pc = "done" /\ df # <<>>) => (df_clean # <<>> /\ rfm # <<>>)

\* the country values of a customer's cleaned rows, missing ones left out
CustomerCountries(c) == {df_clean[k].rec.Country : k \in CustomerRowSet(c)} \ {NaN}

CountryCount(c, v) == Cardinality({k \in CustomerRowSet(c) : df_clean[k].rec.Country = v})

\* the countries no other country of the customer is more frequent than
TopCountries(c) ==
  {v \in CustomerCountries(c) :
     \A w \in CustomerCountries(c) : CountryCount(c, w) <= CountryCount(c, v)}

\* the first cleaned row of the customer with the country
FirstRowWith(c, v) == SetMin({k \in CustomerRowSet(c) : df_clean[k].rec.Country = v})

\* C12: a customer's dominant country is a most frequent country of the
\* customer's cleaned rows, and among several most frequent ones the one
\* that comes first in the cleaned frame's row order
C12_DominantCountryFirstSeen ==
  pc \in AfterAggregate =>
    \A g \in 1..Len(rfm) :
      LET top == TopCountries(rfm[g].CustomerID)
      IN  top # {} =>
            /\ rfm[g].country \in top
            /\ \A w \in top : FirstRowWith(rfm[g].CustomerID, rfm[g].country)
                                <= FirstRowWith(rfm[g].CustomerID, w)

CleanedCustomers == {df_clean[k].rec.CustomerID.v[1] : k \in 1..Len(df_clean)}

\* the customers of the converted frame, rows without a customer id left out
InputCustomers ==
  {df[i].CustomerID.v[1] : i \in {j \in 1..Len(df) : df[j].CustomerID.t = "num"}}

RfmCustomers == {rfm[g].CustomerID : g \in 1..Len(rfm)}

\* C13: the RFM table has one record for each distinct customer id of the
\* cleaned frame, no two records for the same customer and no record for
\* any other customer; a customer whose rows were all removed by cleaning
\* has none
C13_OneRecordPerCustomer ==
  pc \in AfterAggregate =>
    /\ RfmCustomers = CleanedCustomers
    /\ Len(rfm) = Cardinality(CleanedCustomers)
    /\ \A c \in InputCustomers \ CleanedCustomers :
         \A g \in 1..Len(rfm) : rfm[g].CustomerID # c

\* one customer kept with two rows, another with every row removed
C13_Witness ==
  /\ pc = "aggregated"
  /\ InputCustomers \ CleanedCustomers # {}
  /\ \E g \in 1..Len(rfm) : Cardinality(CustomerRowSet(rfm[g].CustomerID)) = 2

(***************************************************************************)
(* Properties of train_cluster_model.py.                                   *)
(***************************************************************************)
AfterNaming == tpc \in {"named", "scored_written", "model_dumped", "done"}
AfterSelection == tpc = "selected" \/ AfterNaming

\* an earlier cluster has the same computed label
LabelTakenBefore(cl) == \E e \in DOMAIN computed : e < cl /\ computed[e] = computed[cl]

\* C4: the segment names of the clusters are pairwise distinct; in ascending
\* cluster-id order the first cluster with a computed label keeps it
\* unsuffixed, and every later cluster with the same computed label gets
\* the label followed by its own cluster id in parentheses
C4_DistinctSegmentNames ==
  AfterNaming =>
    /\ DOMAIN name_map = DOMAIN computed
    /\ \A c \in DOMAIN name_map : \A e \in DOMAIN name_map :
         c # e => name_map[c] # name_map[e]
    /\ \A c \in DOMAIN name_map :
         name_map[c] = IF LabelTakenBefore(c)
                       THEN computed[c] \o " (" \o ToString(c) \o ")"
                       ELSE computed[c]

\* two clusters share a label and the ids present skip one: the later
\* cluster is suffixed with its own id
C4_Witness ==
  /\ AfterNaming
  /\ \E c \in DOMAIN name_map : \E e \in DOMAIN name_map :
       /\ c + 1 < e
       /\ c + 1 \notin DOMAIN name_map
       /\ computed[e] = computed[c]
       /\ name_map[c] = computed[c]
       /\ name_map[e] = computed[e] \o " (" \o ToString(e) \o ")"

\* the medians of the clusters present
PresentMedians == [c \in DOMAIN computed |-> medians[c]]

\* one more than the number of distinct values that rank before v
RankAmong(vals, v, Before(_, _)) == 1 + Cardinality({w \in vals : Before(w, v)})

MonetaryRank(c) ==
  RankAmong({PresentMedians[e].Monetary : e \in DOMAIN computed},
            PresentMedians[c].Monetary, LAMBDA w, v : w > v)
FrequencyRank(c) ==
  RankAmong({PresentMedians[e].Frequency : e \in DOMAIN computed},
            PresentMedians[c].Frequency, LAMBDA w, v : w > v)
RecencyRank(c) ==
  RankAmong({PresentMedians[e].Recency : e \in DOMAIN computed},
            PresentMedians[c].Recency, LAMBDA w, v : w < v)

Strong(c) == MonetaryRank(c) <= 2 /\ FrequencyRank(c) <= 2
Recent(c) == RecencyRank(c) <= 2

\* C5: clusters are dense-ranked by median monetary descending, median
\* frequency descending and median recency ascending; a cluster is
\* 'Champions' if strong and recent, 'Loyal (Re-engage)' if strong and not
\* recent, 'New / Promising' if not strong and recent, and
\* 'At Risk / Lost' otherwise
C5_RanksAndLabels ==
  AfterNaming =>
    \A c \in DOMAIN computed :
      /\ mon_rank(PresentMedians, c) = MonetaryRank(c)
      /\ freq_rank(PresentMedians, c) = FrequencyRank(c)
      /\ rec_rank(PresentMedians, c) = RecencyRank(c)
      /\ computed[c] = IF Strong(c) /\ Recent(c) THEN "Champions"
                       ELSE IF Strong(c) THEN "Loyal (Re-engage)"
                       ELSE IF Recent(c) THEN "New / Promising"
                       ELSE "At Risk / Lost"

\* two clusters share the top monetary and frequency medians, so that the
\* third is second and a champion; the run also ranks some cluster third
C5_Witness ==
  /\ AfterNaming
  /\ \E c \in DOMAIN computed : \E e \in DOMAIN computed : \E g \in DOMAIN computed :
       /\ c # e
       /\ medians[c].Monetary = medians[e].Monetary
       /\ medians[c].Frequency = medians[e].Frequency
       /\ medians[g].Monetary < medians[c].Monetary
       /\ medians[g].Frequency < medians[c].Frequency
       /\ computed[g] = "Champions"
       /\ computed[c] = "Loyal (Re-engage)"

ScannedK == KScanFirst..KScanLast
ScoreOf(kk) == scores[kk - KScanFirst + 1]

\* C6: with --auto_k the selected k has the highest score of k = 2..10, and
\* every smaller k scored strictly less
C6_AutoKSelectsFirstMaximum ==
  (AfterSelection /\ args.auto_k) =>
    /\ Len(scores) = Cardinality(ScannedK)
    /\ best_k \in ScannedK
    /\ best_score = ScoreOf(best_k)
    /\ \A kk \in ScannedK : ScoreOf(kk) <= ScoreOf(best_k)
    /\ \A kk \in ScannedK : kk < best_k => ScoreOf(kk) < ScoreOf(best_k)

\* scores 0.41, 0.55, 0.55 for k = 2, 3, 4 and nothing higher: k = 3
C6_Witness ==
  /\ tpc = "done" /\ args.auto_k
  /\ ScoreOf(2) = 41 /\ ScoreOf(3) = 55 /\ ScoreOf(4) = 55
  /\ best_k = 3

C10_FailsBelowThreshold ==
  AfterSelection =>
    /\ n_customers >= 2
    /\ IF args.auto_k THEN \A kk \in ScannedK : kk < n_customers
                      ELSE args.k < n_customers

(***************************************************************************)
(* Properties of both programs.                                            *)
(***************************************************************************)
\* C11: a run that ended with an exception has persisted no output file,
\* in build_rfm.py and in train_cluster_model.py
C11_AllOrNothing ==
  /\ pc = "failed" => outputs = <<>>
  /\ tpc = "failed" => toutputs = <<>>

SpecEtl == InitEtl /\ [][NextEtl]_vars

SpecTrain == InitTrain /\ [][NextTrain]_vars

====
